---- MODULE Spec2Model ----
(***************************************************************************)
(* InfiScroll (infilist): a virtualised list.  The model follows the most  *)
(* evolved implementation (src/unnamed/part_000).  One ScrollElement       *)
(* instance is modelled: its private fields, the list-item children of its *)
(* root DOM element, the generator calls that have not called back yet and *)
(* the browser's queue of zero-delay timers.                               *)
(*                                                                         *)
(* Abstractions.  A DOM element is identified by the id addChild gives it  *)
(* (instance identifier, index); elements of the current identifier are    *)
(* the bag dom, elements of earlier identifiers are counted by oldDom.     *)
(* __uniqueIdentifier is drawn by Math.random(); the model draws a fresh   *)
(* value every time (uid + 1).  Zero-delay timers fire in the order they   *)
(* were set; events (scroll, resize, generator callbacks, public methods)  *)
(* interleave with them freely.  element.scrollTop belongs to the user:    *)
(* a handler that reads it draws the value it finds, so a scroll and the   *)
(* pass that follows it are one step.  The spinner and the dummy element   *)
(* that stretches the scroll height are left out: no field of the item     *)
(* store depends on them.                                                  *)
(***************************************************************************)
EXTENDS Integers, Sequences, FiniteSets, Bags, TLC

\* ------------------------------------------------------------------ bounds
MaxEpoch == 3
MaxQueue == 4
MaxRequests == 2
MaxDom == 2
MaxTimers == 3
MaxReloadTimers == 1
MaxCalls == 2
MaxUpdates == 2
MaxTop == 7
MaxHeight == 3
MaxTreshold == 3
MaxChildSize == 3

\* typeof this.__size !== "number": no size option was given.
NoSize == -1

\* ------------------------------------------------------------------ helpers
Range(s) == {s[i] : i \in DOMAIN s}

RECURSIVE RemoveFirst(_, _)
\* Array.prototype.indexOf + splice(pos, 1)
RemoveFirst(s, x) ==
    IF s = <<>> THEN <<>>
    ELSE IF Head(s) = x THEN Tail(s)
    ELSE <<Head(s)>> \o RemoveFirst(Tail(s), x)

Max(a, b) == IF a >= b THEN a ELSE b

BagAdd(b, x) == b (+) SetToBag({x})
BagRemove(b, x) == b (-) SetToBag({x})
BagCount(b, x) == CopiesIn(x, b)

\* numRange counting from one: start + index + 1.
numRangeFromOne(start, N) ==
    LET n == IF N = 0 THEN 1 ELSE N
    IN  [k \in 1..n |-> start + k]

\* numRange(start, N): Array.from(Array(N || 1), ...)
numRange(start, N) ==
    LET n == IF N = 0 THEN 1 ELSE N
    IN  [k \in 1..n |-> start + k - 1]

\* getChildrenInView with the treshold taken twice above the view, as it is
\* in totalHeight.
getChildrenInViewTwiceAbove(rootTop, rootHeight, treshold, childSize) ==
    IF childSize = 0 THEN <<0>>
    ELSE
      LET top == Max(rootTop - treshold * 2, 0)
          totalHeight == rootHeight + treshold * 2
          firstChildInView == top \div childSize
          firstChildExcess == firstChildInView * childSize
          viewLeft == totalHeight - (firstChildExcess - rootTop)
          childrenInView == (viewLeft + childSize - 1) \div childSize
      IN  numRange(firstChildInView, childrenInView)

\* getChildrenInView loading the first two children while the size is not
\* known.
getChildrenInViewFirstTwo(rootTop, rootHeight, treshold, childSize) ==
    IF childSize = 0 THEN <<0, 1>>
    ELSE
      LET top == Max(rootTop - treshold, 0)
          totalHeight == rootHeight + treshold * 2
          firstChildInView == top \div childSize
          firstChildExcess == firstChildInView * childSize
          viewLeft == totalHeight - (firstChildExcess - rootTop)
          childrenInView == (viewLeft + childSize - 1) \div childSize
      IN  numRange(firstChildInView, childrenInView)

\* getChildrenInView(rootTop, rootHeight, treshold, childSize);
\* childSize = 0 stands for "not known yet".
getChildrenInView(rootTop, rootHeight, treshold, childSize) ==
    IF childSize = 0 THEN <<0>>
    ELSE
      LET top == Max(rootTop - treshold, 0)
          totalHeight == rootHeight + treshold * 2
          firstChildInView == top \div childSize
          firstChildExcess == firstChildInView * childSize
          viewLeft == totalHeight - (firstChildExcess - rootTop)
          childrenInView == (viewLeft + childSize - 1) \div childSize
      IN  numRange(firstChildInView, childrenInView)

\* calculateTreshold: __tresholdFactor * __childSize; the factor is kept as
\* a number of halves (DEFAULT_TRESHOLD = 0.5 is tresholdHalves = 1).
calculateTreshold(o, cs) == (o.tresholdHalves * cs) \div 2

\* numRange of src/scroll.js
numRange_scroll(start, N) ==
    LET n == IF N = 0 THEN 1 ELSE N
    IN  [k \in 1..n |-> start + k - 1]

\* getChildrenInView of src/scroll.js
getChildrenInView_scroll(rootTop, rootHeight, treshold, childSize) ==
    IF childSize = 0 THEN <<0>>
    ELSE
      LET top == Max(rootTop - treshold, 0)
          totalHeight == rootHeight + treshold * 2
          firstChildInView == top \div childSize
          firstChildExcess == firstChildInView * childSize
          viewLeft == totalHeight - (firstChildExcess - rootTop)
          childrenInView == (viewLeft + childSize - 1) \div childSize
      IN  numRange_scroll(firstChildInView, childrenInView)


\* ------------------------------------------------------------------- state
VARIABLES
    opt,            \* the options object given to the constructor
    size,           \* __size
    childSize,      \* __childSize (0: not known yet)
    treshold,       \* __treshold
    uid,            \* __uniqueIdentifier
    reloading,      \* __reloading
    reloadAfter,    \* __reloadAfterInvalidation
    domElements,    \* __domElements
    inView,         \* __inView
    queue,          \* __queue
    cacheQueue,     \* __cacheQueue
    cache,          \* keys of __cache
    queries,        \* __queries
    dom,            \* bag of indices: list items of the current identifier attached to the root
    oldDom,         \* number of attached list items of earlier identifiers
    requests,       \* bag of generator calls that have not called back yet
    timers,         \* zero-delay timers, in the order they were set
    reloadTimers,   \* pending setTimeout(reload, 10)
    lastScrollTop,  \* __lastScrollTop
    listeners,      \* the event listeners registered: "resize" (on window), "scroll"
    scrollTimeout,  \* the timers of the scroll listener that are pending
    updateRequests, \* __updateRequests: index -> the number of its latest update
    updateCalls,    \* bag of generator calls made by updateItem, not called back yet,
                    \* each with its index, its token and whether it is the latest
                    \* call for its index since the last reload
    calc,           \* a call of getChildrenInView: its arguments and what it returned
    last            \* history, read by the properties only: what the latest step
                    \* did (log), whether it handled a result of an earlier
                    \* identifier (stale), the indices it asked the generator for
                    \* that the step before had an empty result for (retried),
                    \* and how many reload() calls found a reload in progress
                    \* since that reload began (deferred)

vars == <<opt, size, childSize, treshold, uid, reloading, reloadAfter, domElements,
          inView, queue, cacheQueue, cache, queries, dom, oldDom, requests, timers,
          reloadTimers, lastScrollTop, listeners, scrollTimeout, updateRequests,
          updateCalls, calc, last>>

\* The object, the DOM and the browser's queues.
objVars == <<opt, size, childSize, treshold, uid, reloading, reloadAfter, domElements,
             inView, queue, cacheQueue, cache, queries, dom, oldDom, requests, timers,
             reloadTimers, lastScrollTop, listeners, scrollTimeout, updateRequests,
             updateCalls, last>>

\* No call of getChildrenInView is looked at.
NoCalc == [rootTop |-> 0, rootHeight |-> 0, treshold |-> 0, childSize |-> 0,
           done |-> FALSE, result |-> <<>>]

\* The log a step starts with.
\*   ran       an invalidation pass got past its entry guards
\*   sel       elementsToRemove of that pass
\*   skipped   the candidates that pass shifted off __queue and kept in the DOM
\*   asked     the generator calls made, each the indices it was given
\*   promoted  the indices taken from the cache
\*   mounted   the indices addChild attached an element for
\*   ticked    a removeElements timer ran
\*   forgot    the indices it dropped from the cache, in that order
\*   thrown    an exception left the handler
\*   drained   __reloading was reset
\*   reload    reload() was called: "run" or "deferred", else "none"
\*   call      the argument updateSize was called with, if it was looked at
\*   result    the kind of generator result handled, else "none"
\*   emptied   the indices an empty generator result was handled for
\*   consulted the custom check was called
\*   entry     what a call of invalidate by the page met: its force argument,
\*             whether the root element was visible and what the check
\*             returns
\*   trigger   what ran the step: "scroll" (the scroll listener or its
\*             timer), "resize" (the resize listener), "dispose", else "none"
\*   cleared   the scroll listener cleared a pending timer of its own
NoLog == [ran |-> FALSE, sel |-> <<>>, skipped |-> <<>>, asked |-> <<>>,
          promoted |-> {}, mounted |-> <<>>, ticked |-> FALSE, forgot |-> <<>>,
          thrown |-> FALSE, drained |-> FALSE, reload |-> "none", call |-> <<>>,
          result |-> "none", emptied |-> {}, consulted |-> FALSE, entry |-> <<>>, trigger |-> "none",
          cleared |-> FALSE]

\* The object as one record, so that a handler is a function on it.
Obj == [size |-> size, childSize |-> childSize, treshold |-> treshold, uid |-> uid,
        reloading |-> reloading, reloadAfter |-> reloadAfter,
        domElements |-> domElements, inView |-> inView, queue |-> queue,
        cacheQueue |-> cacheQueue, cache |-> cache, queries |-> queries,
        dom |-> dom, oldDom |-> oldDom, requests |-> requests, timers |-> timers,
        reloadTimers |-> reloadTimers, lastScrollTop |-> lastScrollTop,
        listeners |-> listeners, scrollTimeout |-> scrollTimeout,
        updateRequests |-> updateRequests, updateCalls |-> updateCalls,
        log |-> NoLog]

Task(t, els, id, kind, u) == [t |-> t, els |-> els, id |-> id, kind |-> kind, uid |-> u]
InvTask == Task("inv", <<>>, 0, "elem", 0)

\* ---------------------------------------------------------------- addChild
\* addChild(index, elem) without inPlace: appendChild, and the first element
\* fixes the child size, the treshold, and schedules a pass.
\* addChild setting no timer when it finds out the size.
addChildUnscheduled(S, index) ==
    LET S1 == [S EXCEPT !.dom = BagAdd(@, index),
                        !.log.mounted = Append(@, index)]
    IN  IF S1.childSize = 0
        THEN [S1 EXCEPT !.childSize = opt.scrollHeight,
                        !.treshold = calculateTreshold(opt, opt.scrollHeight)]
        ELSE S1

addChild(S, index) ==
    LET S1 == [S EXCEPT !.dom = BagAdd(@, index),
                        !.log.mounted = Append(@, index)]
    IN  IF S1.childSize = 0
        THEN [S1 EXCEPT !.childSize = opt.scrollHeight,
                        !.treshold = calculateTreshold(opt, opt.scrollHeight),
                        !.timers = Append(@, InvTask)]
        ELSE S1

\* ---------------------------------------------------- onListItemGenerated
\* The end of a reload: lines 315-338.
reloadDone(S) ==
    IF S.queries = {} /\ S.reloading
    THEN [S EXCEPT !.reloading = FALSE,
                   !.oldDom = 0,
                   !.reloadAfter = FALSE,
                   !.reloadTimers = IF S.reloadAfter THEN @ + 1 ELSE @,
                   !.log.drained = TRUE]
    ELSE S

RECURSIVE scheduleItems(_, _, _, _)
\* lines 281-291: one timer per index of a batch
scheduleItems(S, index, items, u) ==
    IF index = <<>> THEN S
    ELSE scheduleItems(
           [S EXCEPT !.timers = Append(@, Task("item", <<>>, Head(index),
                IF items = <<>> THEN "empty" ELSE Head(items), u))],
           Tail(index), IF items = <<>> THEN <<>> ELSE Tail(items), u)

\* isReloaded without the comparison of identifiers: every result is taken
\* for one of the current list.
isReloadedNever(S, u) == FALSE

\* line 277: the list has been reloaded while the element was generated
isReloaded(S, u) == S.uid # u

\* onListItemGenerated attaching whatever it is handed.
onListItemGeneratedAttachesAny(S0, isArray, index, newElement, u) ==
    LET S == [S0 EXCEPT !.log.result = newElement.kind]
    IN
    IF newElement.kind = "empty"
    THEN [S EXCEPT !.queries = @ \ (IF isArray THEN Range(index) ELSE {index}),
                   !.log.emptied = IF isArray THEN Range(index) ELSE {index}]
    ELSE IF isReloaded(S, u) THEN S
    ELSE IF isArray THEN scheduleItems(S, index, newElement.items, u)
    ELSE reloadDone(addChild(
           [S EXCEPT !.queries = @ \ {index},
                     !.cache = @ \ {index},
                     !.cacheQueue = RemoveFirst(@, index),
                     !.domElements = @ \cup {index}], index))

\* onListItemGenerated leaving the queries of an empty result in place.
onListItemGeneratedKeepsQueries(S0, isArray, index, newElement, u) ==
    LET S == [S0 EXCEPT !.log.result = newElement.kind]
    IN
    IF newElement.kind = "empty"
    THEN [S EXCEPT !.log.emptied = IF isArray THEN Range(index) ELSE {index}]
    ELSE IF isReloaded(S, u) THEN S
    ELSE IF isArray THEN scheduleItems(S, index, newElement.items, u)
    ELSE IF newElement.kind # "elem" THEN [S EXCEPT !.log.thrown = TRUE]
    ELSE reloadDone(addChild(
           [S EXCEPT !.queries = @ \ {index},
                     !.cache = @ \ {index},
                     !.cacheQueue = RemoveFirst(@, index),
                     !.domElements = @ \cup {index}], index))

\* onListItemGenerated(index, newElement, uniqueIdentifier).  isArray: index
\* is an array (batch mode); then index is a sequence and newElement.items
\* the array handed over.  newElement.kind: "empty" (null, undefined, []),
\* "list" (a non-empty array), "elem" (an HTMLElement), "bad" (anything else).
onListItemGenerated(S0, isArray, index, newElement, u) ==
    LET S == [S0 EXCEPT !.log.result = newElement.kind]
    IN
    IF newElement.kind = "empty"
    THEN [S EXCEPT !.queries = @ \ (IF isArray THEN Range(index) ELSE {index}),
                   !.log.emptied = IF isArray THEN Range(index) ELSE {index}]
    ELSE IF isReloaded(S, u) THEN S
    ELSE IF isArray THEN scheduleItems(S, index, newElement.items, u)
    ELSE IF newElement.kind # "elem" THEN [S EXCEPT !.log.thrown = TRUE]
    ELSE reloadDone(addChild(
           [S EXCEPT !.queries = @ \ {index},
                     !.cache = @ \ {index},
                     !.cacheQueue = RemoveFirst(@, index),
                     !.domElements = @ \cup {index}], index))


\* ---------------------------------------------------------- removeChildren
RECURSIVE removeChildren(_, _, _)
\* removeChildren(parent, elements): every index whose element is found by
\* its id is detached; the result maps index -> element, keys in insertion
\* order.  Returns the new bag of attached elements and those keys.
removeChildren(d, elements, result) ==
    IF elements = <<>> THEN [dom |-> d, result |-> result]
    ELSE LET e == Head(elements)
         IN  IF BagCount(d, e) = 0
             THEN removeChildren(d, Tail(elements), result)
             ELSE removeChildren(BagRemove(d, e), Tail(elements),
                    IF e \in Range(result) THEN result ELSE Append(result, e))

\* ---------------------------------------------------------------- invalidate
\* isKept without the look at __inView: only a queried candidate is kept.
isKeptQueriedOnly(S, candidateForRemoval) == candidateForRemoval \in S.queries

\* lines 597-600: a candidate in view or being queried stays in the DOM
isKept(S, candidateForRemoval) ==
    candidateForRemoval \in S.inView \/ candidateForRemoval \in S.queries

RECURSIVE evictLoop(_, _, _, _, _, _)
\* lines 591-603: the loop that shifts candidates off __queue
evictLoop(q, i, elementsToRemove, skipped, S, limit) ==
    IF Len(q) > limit /\ i < Len(q)
    THEN LET candidateForRemoval == Head(q)
         IN  IF isKept(S, candidateForRemoval)
             THEN evictLoop(Tail(q), i + 1, elementsToRemove,
                            Append(skipped, candidateForRemoval), S, limit)
             ELSE evictLoop(Tail(q), i + 1,
                            Append(elementsToRemove, candidateForRemoval), skipped,
                            S, limit)
    ELSE [queue |-> q, elementsToRemove |-> elementsToRemove, skipped |-> skipped]

\* evictStep taking the selected elements off the DOM at once.
evictStepAtOnce(S) ==
    IF opt.elementLimit = 0 THEN S
    ELSE LET r == evictLoop(S.queue, 0, <<>>, <<>>, S, opt.elementLimit)
         IN  [S EXCEPT !.queue = r.queue,
                       !.log.skipped = r.skipped,
                       !.log.sel = r.elementsToRemove,
                       !.dom = removeChildren(@, r.elementsToRemove, <<>>).dom,
                       !.domElements = @ \ Range(r.elementsToRemove)]

\* lines 586-633: the eviction step; the removal itself is a timer
evictStep(S) ==
    IF opt.elementLimit = 0 THEN S
    ELSE LET r == evictLoop(S.queue, 0, <<>>, <<>>, S, opt.elementLimit)
         IN  IF r.elementsToRemove = <<>>
             THEN [S EXCEPT !.queue = r.queue, !.log.skipped = r.skipped]
             ELSE [S EXCEPT !.queue = r.queue,
                            !.log.skipped = r.skipped,
                            !.log.sel = r.elementsToRemove,
                            !.timers = Append(@, Task("rm", r.elementsToRemove, 0, "elem", 0))]

\* isUnresolved without the look at __queries.
isUnresolvedNever(S, childToQuery) == FALSE

\* line 655: the query for this index is unresolved already
isUnresolved(S, childToQuery) == childToQuery \in S.queries

\* isPastSize with the fixed size never looked at.
isPastSizeNever(S, e) == FALSE

\* lines 578-579 and 644: the list has a fixed size and the index is past it
isPastSize(S, e) == S.size # NoSize /\ e >= S.size

RECURSIVE loadLoop(_, _, _, _)
\* lines 642-673: the loop over difference; returns the object and
\* childrenToLoad
loadLoop(S, difference, u, childrenToLoad) ==
    IF difference = <<>> THEN [S |-> S, childrenToLoad |-> childrenToLoad]
    ELSE LET childToQuery == Head(difference)
         IN  IF isPastSize(S, childToQuery)
             THEN loadLoop(S, Tail(difference), u, childrenToLoad)
             ELSE IF isUnresolved(S, childToQuery)
             THEN loadLoop(S, Tail(difference), u, childrenToLoad)
             ELSE LET S1 == [S EXCEPT !.queue = Append(@, childToQuery)]
                  IN  IF childToQuery \in S1.cache
                      THEN loadLoop(
                             onListItemGenerated(
                               [S1 EXCEPT !.log.promoted = @ \cup {childToQuery}],
                               FALSE, childToQuery, [kind |-> "elem", items |-> <<>>], u),
                             Tail(difference), u, childrenToLoad)
                      ELSE loadLoop([S1 EXCEPT !.queries = @ \cup {childToQuery}],
                                    Tail(difference), u,
                                    Append(childrenToLoad, childToQuery))

RECURSIVE generateEach(_, _, _)
\* lines 693-700: one generator call per index
generateEach(S, childrenToLoad, u) ==
    IF childrenToLoad = <<>> THEN S
    ELSE generateEach(
           [S EXCEPT !.requests = BagAdd(@, [ids |-> <<Head(childrenToLoad)>>, uid |-> u]),
                     !.log.asked = Append(@, <<Head(childrenToLoad)>>)],
           Tail(childrenToLoad), u)

\* generate calling the generator once per index whatever batchLoad says.
generateSingly(S, childrenToLoad, u) == generateEach(S, childrenToLoad, u)

\* lines 681-701: the generator calls of a pass
generate(S, childrenToLoad, u) ==
    IF childrenToLoad = <<>> THEN S
    ELSE IF opt.batchLoad
    THEN [S EXCEPT !.requests = BagAdd(@, [ids |-> childrenToLoad, uid |-> u]),
                   !.log.asked = Append(@, childrenToLoad)]
    ELSE generateEach(S, childrenToLoad, u)

\* entryGuard letting a hidden element through only when forced.
entryGuardVisibleOnly(force, visible, checked) == force \/ visible

\* lines 539-550: the pass goes on.  checked is read only when a check is
\* configured, visible only when none is.
entryGuard(force, visible, checked) ==
    force \/ (IF opt.check THEN checked ELSE visible)

\* invalidate(force).  visible: isElementVisible(this.element) at this
\* moment; checked: what the custom check returns if it is called;
\* scrollTop: where the user has scrolled the root element to.  A hidden
\* element reports scrollTop 0 and clientHeight 0.
invalidate(S0, force, visible, checked, scrollTop) ==
    LET S == IF ~force /\ opt.check THEN [S0 EXCEPT !.log.consulted = TRUE] ELSE S0
    IN
    IF ~entryGuard(force, visible, checked)
    THEN S
    ELSE
      LET readTop == IF visible THEN scrollTop ELSE 0
          height == IF visible THEN opt.clientHeight ELSE 0
          top == IF readTop = 0 /\ ~visible /\ S.lastScrollTop # 0
                 THEN S.lastScrollTop ELSE readTop
          elementsInView == getChildrenInView(top, height, S.treshold, S.childSize)
          difference == SelectSeq(elementsInView,
                          LAMBDA e : e \notin S.domElements /\ ~isPastSize(S, e))
          S1 == [S EXCEPT !.lastScrollTop = top,
                          !.inView = Range(elementsInView),
                          !.log.ran = TRUE]
          S2 == evictStep(S1)
          r == loadLoop(S2, difference, S.uid, <<>>)
      IN  generate(r.S, r.childrenToLoad, S.uid)

\* --------------------------------------------------- listeners and dispose
\* __resizeListener (lines 369-371)
resizeListener(S, visible, checked, scrollTop) ==
    invalidate([S EXCEPT !.log.trigger = "resize"], FALSE, visible, checked, scrollTop)

\* __scrollListener (lines 384-397): a pass at once, or a timer of
\* SCROLL_THROTTLE ms that replaces the pending one
\* The scroll listener not clearing the timer that is pending.
scrollListenerPiling(S, visible, checked, scrollTop) ==
    IF ~opt.throttleScroll
    THEN invalidate([S EXCEPT !.log.trigger = "scroll"], FALSE, visible, checked,
                    scrollTop)
    ELSE [S EXCEPT !.scrollTimeout = @ + 1, !.log.trigger = "scroll"]

scrollListener(S, visible, checked, scrollTop) ==
    IF ~opt.throttleScroll
    THEN invalidate([S EXCEPT !.log.trigger = "scroll"], FALSE, visible, checked,
                    scrollTop)
    ELSE [S EXCEPT !.scrollTimeout = (IF @ > 0 THEN @ - 1 ELSE 0) + 1,
                   !.log.cleared = (S.scrollTimeout > 0),
                   !.log.trigger = "scroll"]

\* the timer of the scroll listener (lines 392-395)
scrollTimedOut(S, visible, checked, scrollTop) ==
    invalidate([S EXCEPT !.scrollTimeout = @ - 1, !.log.trigger = "scroll"],
               FALSE, visible, checked, scrollTop)

\* dispose() (lines 808-811)
dispose(S) == [S EXCEPT !.listeners = {}, !.log.trigger = "dispose"]

\* ------------------------------------------------- removeElements (timer)
RECURSIVE truncateCache(_)
\* lines 622-629
truncateCache(S) ==
    IF opt.cacheSize # 0 /\ Len(S.cacheQueue) > opt.cacheSize
    THEN truncateCache([S EXCEPT !.cacheQueue = Tail(@),
                                 !.cache = @ \ {Head(S.cacheQueue)},
                                 !.log.forgot = Append(@, Head(S.cacheQueue))])
    ELSE S

RECURSIVE cacheRemoved(_, _)
\* lines 612-620: the loop over the removed elements.  The call of
\* __domDelete names a variable that does not exist (the field is
\* this.__domDelete): with the option set it throws a ReferenceError.
cacheRemoved(S, removed) ==
    IF removed = <<>> THEN S
    ELSE LET removedId == Head(removed)
             S1 == [S EXCEPT !.cacheQueue = Append(@, removedId),
                             !.cache = @ \cup {removedId},
                             !.domElements = @ \ {removedId}]
         IN  IF opt.domDelete
             THEN [S1 EXCEPT !.log.thrown = TRUE]
             ELSE cacheRemoved(S1, Tail(removed))

\* lines 606-630: the deferred removal of the elements a pass selected
removeElements(S, elementsToRemove) ==
    LET r == removeChildren(S.dom, elementsToRemove, <<>>)
        S1 == cacheRemoved([S EXCEPT !.dom = r.dom, !.log.ticked = TRUE], r.result)
    IN  IF S1.log.thrown THEN S1 ELSE truncateCache(S1)

\* -------------------------------------------------------------------- reload
\* reload with a call that finds a reload in progress setting a timer of its
\* own instead of leaving it to the end of that reload.
reloadPerCall(S) ==
    IF S.reloading
    THEN [S EXCEPT !.reloadAfter = TRUE, !.log.reload = "deferred",
                   !.reloadTimers = @ + 1]
    ELSE [S EXCEPT !.reloading = TRUE,
                   !.log.reload = "run",
                   !.oldDom = @ + BagCardinality(S.dom),
                   !.dom = EmptyBag,
                   !.domElements = {},
                   !.inView = {},
                   !.cache = {},
                   !.queries = {},
                   !.updateRequests = <<>>,
                   !.queue = <<>>,
                   !.cacheQueue = <<>>,
                   !.uid = @ + 1,
                   !.timers = Append(@, InvTask)]

\* reload without this.__cache.clear() and the reset of __cacheQueue.
reloadKeepsCache(S) ==
    IF S.reloading
    THEN [S EXCEPT !.reloadAfter = TRUE, !.log.reload = "deferred"]
    ELSE [S EXCEPT !.reloading = TRUE,
                   !.log.reload = "run",
                   !.oldDom = @ + BagCardinality(S.dom),
                   !.dom = EmptyBag,
                   !.domElements = {},
                   !.inView = {},
                   !.queries = {},
                   !.updateRequests = <<>>,
                   !.queue = <<>>,
                   !.uid = @ + 1,
                   !.timers = Append(@, InvTask)]

\* ScrollElement.prototype.reload
reload(S) ==
    IF S.reloading
    THEN [S EXCEPT !.reloadAfter = TRUE, !.log.reload = "deferred"]
    ELSE [S EXCEPT !.reloading = TRUE,
                   !.log.reload = "run",
                   !.oldDom = @ + BagCardinality(S.dom),
                   !.dom = EmptyBag,
                   !.domElements = {},
                   !.inView = {},
                   !.cache = {},
                   !.queries = {},
                   !.updateRequests = <<>>,
                   !.queue = <<>>,
                   !.cacheQueue = <<>>,
                   !.uid = @ + 1,
                   !.timers = Append(@, InvTask)]

\* ---------------------------------------------------------------- updateItem
\* addChild(index, elem, true): insertBefore(elem, oldElement) and
\* removeChild(oldElement), oldElement found by the id of the index under the
\* current identifier.  Without an old element insertBefore appends and
\* removeChild(null) throws.
addChildInPlace(S, index) ==
    LET S1 == [S EXCEPT !.log.mounted = Append(@, index)]
    IN  IF BagCount(S.dom, index) = 0
        THEN [S1 EXCEPT !.dom = BagAdd(@, index), !.log.thrown = TRUE]
        ELSE IF S1.childSize = 0
        THEN [S1 EXCEPT !.childSize = opt.scrollHeight,
                        !.treshold = calculateTreshold(opt, opt.scrollHeight),
                        !.timers = Append(@, InvTask)]
        ELSE S1

\* ScrollElement.prototype.updateItem(index); randomIndex is what
\* Math.random() * 1000 >>> 0 gave.
\* The outstanding calls of updateItem, those for the given indices marked
\* as no longer the latest.
Superseded(calls, indices) ==
    LET old(c) == [c EXCEPT !.latest = c.latest /\ c.index \notin indices]
        keys == {old(c) : c \in BagToSet(calls)}
    IN  [k \in keys |->
            BagCount(calls, k)
              + (IF k.index \in indices /\ ~k.latest
                 THEN BagCount(calls, [k EXCEPT !.latest = TRUE]) ELSE 0)]

updateItem(S, index, randomIndex) ==
    IF index \notin S.domElements THEN S
    ELSE [S EXCEPT !.updateRequests = (index :> randomIndex) @@ @,
                   !.updateCalls = BagAdd(Superseded(@, {index}),
                                          [index |-> index, token |-> randomIndex,
                                           latest |-> TRUE])]

\* The callback updateItem hands to the generator.  kind: "empty" (null,
\* undefined) or "elem" (an HTMLElement).
onItemUpdated(S, index, randomIndex, kind) ==
    IF kind = "empty" THEN S
    ELSE IF index \notin DOMAIN S.updateRequests THEN S
    ELSE IF S.updateRequests[index] # randomIndex THEN S
    ELSE addChildInPlace(S, index)

\* ---------------------------------------------------------------- updateSize
RECURSIVE dropElements(_, _)
\* lines 768-782
dropElements(S, removeElems) ==
    IF removeElems = <<>> THEN S
    ELSE LET removedChild == Head(removeElems)
         IN  dropElements(
               [S EXCEPT !.domElements = @ \ {removedChild},
                         !.cache = @ \ {removedChild},
                         !.queue = RemoveFirst(@, removedChild),
                         !.cacheQueue = RemoveFirst(@, removedChild)],
               Tail(removeElems))

RECURSIVE SetToSeq(_)
SetToSeq(s) ==
    IF s = {} THEN <<>>
    ELSE LET m == CHOOSE x \in s : \A y \in s : x <= y
         IN  <<m>> \o SetToSeq(s \ {m})

\* updateSize(size) for a number size >= 0.
updateSize(S, newSize, visible, checked, scrollTop) ==
    IF newSize = S.size THEN S
    ELSE
      LET oldSize == S.size
          clientHeight == IF visible THEN opt.clientHeight ELSE 0
          readTop == IF visible THEN scrollTop ELSE 0
          newMaxScrollHeight == newSize * S.childSize
          \* lines 754-758: the visible area is moved up
          movedTop == IF S.childSize # 0 /\ readTop + clientHeight > newMaxScrollHeight
                      THEN Max(newMaxScrollHeight - clientHeight, 0)
                      ELSE scrollTop
          S1 == [S EXCEPT !.size = newSize]
          removeElems == SetToSeq({e \in S.domElements : e >= newSize})
          r == removeChildren(S1.dom, removeElems, <<>>)
          S2 == dropElements([S1 EXCEPT !.dom = r.dom], removeElems)
          S3 == IF newSize = 0
                THEN [S2 EXCEPT !.dom = EmptyBag, !.oldDom = 0]
                ELSE S2
      IN  IF oldSize = 0
          THEN invalidate(S3, FALSE, visible, checked, movedTop)
          ELSE S3

\* updateSize(size) for any argument: isNumber is typeof size === "number",
\* value the number (0 for anything else).  Lines 731-732 throw before
\* anything is written.
updateSizeOf(S, arg, visible, checked, scrollTop) ==
    LET S1 == [S EXCEPT !.log.call = <<arg>>]
    IN  IF ~arg.isNumber \/ arg.value < 0
        THEN [S1 EXCEPT !.log.thrown = TRUE]
        ELSE updateSize(S1, arg.value, visible, checked, scrollTop)

\* ------------------------------------------------------------ src/scroll.js
\* The earlier implementation in src/scroll.js, on the same fields.  It has
\* no identifier of the current load, no batches and no reload in progress.

\* calculateTreshold of src/scroll.js
calculateTreshold_scroll(o, cs) == (o.tresholdHalves * cs) \div 2

\* addChild of src/scroll.js, not in place
addChild_scroll(S, index) ==
    LET S1 == [S EXCEPT !.dom = BagAdd(@, index),
                        !.log.mounted = Append(@, index)]
    IN  IF S1.childSize = 0
        THEN [S1 EXCEPT !.childSize = opt.scrollHeight,
                        !.treshold = calculateTreshold_scroll(opt, opt.scrollHeight),
                        !.timers = Append(@, InvTask)]
        ELSE S1

\* onListItemGenerated(index, newElement) of src/scroll.js; kind is what
\* newElement is: "empty" (null or undefined), "elem" or "bad"
onListItemGenerated_scroll(S0, index, kind) ==
    LET S == [S0 EXCEPT !.log.result = kind]
    IN  IF kind = "empty" THEN S
        ELSE IF kind # "elem" THEN [S EXCEPT !.log.thrown = TRUE]
        ELSE addChild_scroll(
               [S EXCEPT !.queries = @ \ {index},
                         !.cache = @ \ {index},
                         !.cacheQueue = RemoveFirst(@, index),
                         !.domElements = @ \cup {index}],
               index)

\* removeChildren of src/scroll.js
RECURSIVE removeChildren_scroll(_, _, _)
removeChildren_scroll(d, elements, result) ==
    IF elements = <<>> THEN [dom |-> d, result |-> result]
    ELSE LET e == Head(elements)
         IN  IF BagCount(d, e) = 0
             THEN removeChildren_scroll(d, Tail(elements), result)
             ELSE removeChildren_scroll(BagRemove(d, e), Tail(elements),
                    IF e \in Range(result) THEN result ELSE Append(result, e))

\* the loop of removeElements over the removed elements; __domDelete is
\* called as a variable that does not exist
RECURSIVE cacheRemoved_scroll(_, _)
cacheRemoved_scroll(S, removed) ==
    IF removed = <<>> THEN S
    ELSE LET removedId == Head(removed)
             S1 == [S EXCEPT !.cacheQueue = Append(@, removedId),
                             !.cache = @ \cup {removedId},
                             !.domElements = @ \ {removedId}]
         IN  IF opt.domDelete
             THEN [S1 EXCEPT !.log.thrown = TRUE]
             ELSE cacheRemoved_scroll(S1, Tail(removed))

\* the loop of removeElements that truncates the cache
RECURSIVE truncateCache_scroll(_)
truncateCache_scroll(S) ==
    IF opt.cacheSize # 0 /\ Len(S.cacheQueue) > opt.cacheSize
    THEN truncateCache_scroll([S EXCEPT !.cacheQueue = Tail(@),
                                        !.cache = @ \ {Head(S.cacheQueue)},
                                        !.log.forgot = Append(@, Head(S.cacheQueue))])
    ELSE S

\* removeElements of src/scroll.js, run by its timer
removeElements_scroll(S, elementsToRemove) ==
    LET r == removeChildren_scroll(S.dom, elementsToRemove, <<>>)
        S1 == cacheRemoved_scroll([S EXCEPT !.dom = r.dom, !.log.ticked = TRUE],
                                  r.result)
    IN  IF S1.log.thrown THEN S1 ELSE truncateCache_scroll(S1)

\* the loop of invalidate that shifts candidates off __queue
RECURSIVE evictLoop_scroll(_, _, _, _, _, _)
evictLoop_scroll(q, i, elementsToRemove, skipped, S, limit) ==
    IF Len(q) > limit /\ i < Len(q)
    THEN LET candidateForRemoval == Head(q)
         IN  IF candidateForRemoval \in S.inView \/ candidateForRemoval \in S.queries
             THEN evictLoop_scroll(Tail(q), i + 1, elementsToRemove,
                                   Append(skipped, candidateForRemoval), S, limit)
             ELSE evictLoop_scroll(Tail(q), i + 1,
                                   Append(elementsToRemove, candidateForRemoval),
                                   skipped, S, limit)
    ELSE [queue |-> q, elementsToRemove |-> elementsToRemove, skipped |-> skipped]

\* the eviction step of invalidate in src/scroll.js
evictStep_scroll(S) ==
    IF opt.elementLimit = 0 THEN S
    ELSE LET r == evictLoop_scroll(S.queue, 0, <<>>, <<>>, S, opt.elementLimit)
         IN  IF r.elementsToRemove = <<>>
             THEN [S EXCEPT !.queue = r.queue, !.log.skipped = r.skipped]
             ELSE [S EXCEPT !.queue = r.queue,
                            !.log.skipped = r.skipped,
                            !.log.sel = r.elementsToRemove,
                            !.timers = Append(@, Task("rm", r.elementsToRemove, 0,
                                                      "elem", 0))]

\* the loop of invalidate over difference in src/scroll.js: an index that
\* is not in __queries is taken from the cache or asked of the generator.
\* Nothing is added to __queries, here or elsewhere in the file.
RECURSIVE loadLoop_scroll(_, _)
loadLoop_scroll(S, difference) ==
    IF difference = <<>> THEN S
    ELSE LET childToQuery == Head(difference)
         IN  IF S.size > 0 /\ childToQuery >= S.size
             THEN loadLoop_scroll(S, Tail(difference))
             ELSE IF childToQuery \in S.queries
             THEN loadLoop_scroll(S, Tail(difference))
             ELSE IF childToQuery \in S.cache
             THEN loadLoop_scroll(
                    onListItemGenerated_scroll(
                      [S EXCEPT !.log.promoted = @ \cup {childToQuery}],
                      childToQuery, "elem"),
                    Tail(difference))
             ELSE loadLoop_scroll(
                    [S EXCEPT !.requests = BagAdd(@, [ids |-> <<childToQuery>>,
                                                      uid |-> S.uid]),
                              !.log.asked = Append(@, <<childToQuery>>)],
                    Tail(difference))

\* invalidate(force) of src/scroll.js.  visible: element.offsetParent is
\* not null; checked: what the custom check returns if it is called.
invalidate_scroll(S0, force, visible, checked, scrollTop) ==
    LET S == IF ~force /\ opt.check THEN [S0 EXCEPT !.log.consulted = TRUE] ELSE S0
    IN
    IF ~force /\ ((opt.check /\ ~checked) \/ ~visible)
    THEN S
    ELSE
      LET top == IF visible THEN scrollTop ELSE 0
          height == IF visible THEN opt.clientHeight ELSE 0
          elementsInView == getChildrenInView_scroll(top, height, S.treshold,
                                                     S.childSize)
          difference == SelectSeq(elementsInView, LAMBDA e : e \notin S.domElements)
          S1 == [S EXCEPT !.inView = Range(elementsInView),
                          !.queue = @ \o SelectSeq(difference,
                                        LAMBDA e : S.size > 0 => e <= S.size),
                          !.log.ran = TRUE]
      IN  loadLoop_scroll(evictStep_scroll(S1), difference)

\* ----------------------------------------------------------- configurations
\* An options object the constructor is given (0: the option is left out),
\* with the two measures the browser reports (clientHeight of the root
\* element, scrollHeight of a generated element) and what the page does
\* with the list: the values element.scrollTop takes when the user scrolls,
\* the sizes passed to updateSize, what generators hand over for an index,
\* whether the root element is ever hidden, and the indices passed to
\* updateItem.
Plain ==
    [elementLimit |-> 0, cacheSize |-> 0, batchLoad |-> FALSE, domDelete |-> FALSE,
     check |-> FALSE, tresholdHalves |-> 0, size |-> NoSize, childSize |-> 2,
     clientHeight |-> 2, scrollHeight |-> 2,
     scrollTops |-> {0, 2}, sizes |-> {}, kinds |-> {"elem", "empty"},
     canHide |-> FALSE, updates |-> {}, throttleScroll |-> TRUE]

\* Everything loaded in batches: indices 0 and 1 in view, a list of two.
PlainBatch == [Plain EXCEPT !.batchLoad = TRUE, !.tresholdHalves = 1, !.size = 2,
                            !.scrollTops = {0}]

\* One index in view at a time (0 or 1) of a list of two, at most one
\* element in the DOM and one in the cache.
Single == [Plain EXCEPT !.elementLimit = 1, !.cacheSize = 1, !.size = 2,
                        !.scrollTops = {0, 2}]

\* The same with a domDelete callback.
SingleDelete == [Single EXCEPT !.domDelete = TRUE]

\* Indices 0-1 or 1-3 in view, loaded in batches, a list of three, at
\* most one element in the DOM.
Batch == [Plain EXCEPT !.batchLoad = TRUE, !.tresholdHalves = 1, !.elementLimit = 1,
                       !.size = 3, !.scrollTops = {0, 4}]

\* Indices 0-1 or 2-3 in view of a list of three that updateSize makes a
\* list of one and of three again, at most one element in the DOM and one in
\* the cache; the generator always hands over an element.
Padded == [Plain EXCEPT !.elementLimit = 1, !.cacheSize = 1, !.tresholdHalves = 1,
                        !.size = 3, !.clientHeight = 1, !.scrollTops = {0, 5},
                        !.sizes = {1, 3}, !.kinds = {"elem"}]

\* Single with updateItem(0) called by the page and a generator that always
\* hands over an element.
Updated == [Single EXCEPT !.updates = {0}, !.kinds = {"elem"}]

\* Indices 0-1 in view of a list of two that updateSize empties and makes a
\* list of two again; the generator always hands over an element.
Emptied == [Plain EXCEPT !.tresholdHalves = 1, !.size = 2, !.clientHeight = 1,
                         !.scrollTops = {0}, !.sizes = {0, 2}, !.kinds = {"elem"}]

\* Single with a generator that always hands over an element; the scroll
\* listener throttles, as it does when the option is left out.
Throttled == [Single EXCEPT !.kinds = {"elem"}]

\* The same with throttleScroll: false.
Unthrottled == [Throttled EXCEPT !.throttleScroll = FALSE]

\* Single with a custom check and a root element that may be hidden; the
\* generator always hands over an element.
Checked == [Single EXCEPT !.check = TRUE, !.canHide = TRUE, !.kinds = {"elem"}]

\* The same without the custom check.
Hidable == [Checked EXCEPT !.check = FALSE]

\* Single and Batch with generators that hand over an element or something
\* that is none (a string, a number, a plain object).
Faulty == [Single EXCEPT !.kinds = {"elem", "bad"}]
FaultyBatch == [Batch EXCEPT !.kinds = {"elem", "bad"}]

\* Indices 0-2 or 3-5 in view of a list without a fixed size, loaded in
\* batches, at most one element in the DOM; the generator hands over
\* elements or nothing at all.
Wide == [Plain EXCEPT !.batchLoad = TRUE, !.elementLimit = 1, !.clientHeight = 6,
                      !.scrollTops = {0, 6}, !.kinds = {"elem"}]

\* No childSize option: the size is taken from the first element attached.
Unsized == [Plain EXCEPT !.childSize = 0, !.tresholdHalves = 1]

\* ---------------------------------------------------------------- the steps
Within(S) ==
    /\ Len(S.queue) <= MaxQueue
    /\ BagCardinality(S.requests) <= MaxRequests
    /\ Len(S.timers) <= MaxTimers
    /\ \A i \in BagToSet(S.dom) : BagCount(S.dom, i) <= MaxDom
    /\ S.reloadTimers <= MaxReloadTimers
    /\ S.uid <= MaxEpoch
    /\ BagCardinality(S.updateCalls) <= MaxUpdates

\* stale: "no", or the step handled a generator result of an earlier
\* identifier: "empty" (null, undefined, []), "full" (anything else handed
\* to the callback) or "item" (an element of a batch, handled by its timer).
Commit(S, stale) ==
    /\ Within(S)
    /\ size' = S.size
    /\ childSize' = S.childSize
    /\ treshold' = S.treshold
    /\ uid' = S.uid
    /\ reloading' = S.reloading
    /\ reloadAfter' = S.reloadAfter
    /\ domElements' = S.domElements
    /\ inView' = S.inView
    /\ queue' = S.queue
    /\ cacheQueue' = S.cacheQueue
    /\ cache' = S.cache
    /\ queries' = S.queries
    /\ dom' = S.dom
    /\ oldDom' = S.oldDom
    /\ requests' = S.requests
    /\ timers' = S.timers
    /\ reloadTimers' = S.reloadTimers
    /\ lastScrollTop' = S.lastScrollTop
    /\ listeners' = S.listeners
    /\ scrollTimeout' = S.scrollTimeout
    /\ updateRequests' = S.updateRequests
    /\ updateCalls' = IF S.log.reload = "run"
                       THEN Superseded(S.updateCalls,
                                       {c.index : c \in BagToSet(S.updateCalls)})
                       ELSE S.updateCalls
    /\ last' = [stale |-> stale, log |-> S.log,
                retried |-> {e \in last.log.emptied :
                               \E k \in 1..Len(S.log.asked) : e \in Range(S.log.asked[k])},
                deferred |-> IF S.log.reload = "deferred"
                             THEN IF last.deferred < MaxCalls
                                  THEN last.deferred + 1 ELSE MaxCalls
                             ELSE IF S.log.reload = "run" \/ last.log.drained THEN 0
                             ELSE last.deferred]
    /\ UNCHANGED <<opt, calc>>

\* The state the constructor leaves, for an options object of the set.
Built(configs) ==
    /\ opt \in configs
    /\ size = opt.size
    /\ childSize = opt.childSize
    /\ treshold = IF opt.childSize = 0 THEN 0 ELSE calculateTreshold(opt, opt.childSize)
    /\ uid = 1
    /\ reloading = FALSE
    /\ reloadAfter = FALSE
    /\ domElements = {}
    /\ inView = {}
    /\ queue = <<>>
    /\ cacheQueue = <<>>
    /\ cache = {}
    /\ queries = {}
    /\ dom = EmptyBag
    /\ oldDom = 0
    /\ requests = EmptyBag
    /\ timers = <<InvTask>>
    /\ reloadTimers = 0
    /\ lastScrollTop = 0
    /\ listeners = {"resize", "scroll"}
    /\ scrollTimeout = 0
    /\ updateRequests = <<>>
    /\ updateCalls = EmptyBag
    /\ last = [stale |-> "no", log |-> NoLog, retried |-> {}, deferred |-> 0]

Constructed(configs) == Built(configs) /\ calc = NoCalc

\* The arguments of a call of getChildrenInView: small ones, and those of
\* a list of 50 px items in a 200 px viewport with a treshold of 25 px.
Calls ==
    [rootTop : 0..MaxTop, rootHeight : (1..MaxHeight) \cup {200},
     treshold : (0..MaxTreshold) \cup {25}, childSize : (0..MaxChildSize) \cup {50},
     done : {FALSE}, result : {<<>>}]

\* getChildrenInView is called and returns.
Calculate ==
    /\ ~calc.done
    /\ calc' = [calc EXCEPT !.done = TRUE,
                            !.result = getChildrenInView(calc.rootTop, calc.rootHeight,
                                                         calc.treshold, calc.childSize)]
    /\ UNCHANGED objVars

\* What the custom check may return: it is only called when configured.
Checks == IF opt.check THEN BOOLEAN ELSE {TRUE}
\* isElementVisible(this.element)
Visibles == IF opt.canHide THEN BOOLEAN ELSE {TRUE}

\* Where the root element can be scrolled to: a list of known size is not
\* scrolled past its end.
ScrollTops ==
    {s \in opt.scrollTops :
        size = NoSize \/ s + opt.clientHeight <= Max(size * childSize, opt.clientHeight)}

\* invalidate(force) called by the page, by the resize listener or by the
\* scroll listener.
Invalidate ==
    \E force \in BOOLEAN, visible \in Visibles, checked \in Checks,
       scrollTop \in ScrollTops :
        Commit(invalidate(Obj, force, visible, checked, scrollTop), "no")

Staleness(u, kind) == IF u = uid THEN "no" ELSE IF kind = "empty" THEN "empty" ELSE "full"

\* A timer set by setTimeout(this.invalidate.bind(this), 0) fires.
FireInvalidate ==
    /\ timers # <<>>
    /\ Head(timers).t = "inv"
    /\ \E visible \in Visibles, checked \in Checks, scrollTop \in ScrollTops :
          Commit(invalidate([Obj EXCEPT !.timers = Tail(@)], FALSE, visible, checked,
                            scrollTop),
                 "no")

\* A timer set by setTimeout(removeElements.bind(this), 0) fires.
FireRemove ==
    /\ timers # <<>>
    /\ Head(timers).t = "rm"
    /\ Commit(removeElements([Obj EXCEPT !.timers = Tail(@)], Head(timers).els), "no")

\* A timer set for one item of a batch fires.
FireItem ==
    /\ timers # <<>>
    /\ Head(timers).t = "item"
    /\ LET task == Head(timers)
       IN  Commit(onListItemGenerated([Obj EXCEPT !.timers = Tail(@)], FALSE, task.id,
                                      [kind |-> task.kind, items |-> <<>>], task.uid),
                  IF Staleness(task.uid, task.kind) = "full" THEN "item"
                  ELSE Staleness(task.uid, task.kind))

\* What a generator call may hand to its callback.
Results(r) ==
    IF opt.batchLoad
    THEN {[kind |-> "empty", items |-> <<>>]}
         \cup {[kind |-> "list", items |-> it] : it \in [1..Len(r.ids) -> opt.kinds]}
    ELSE {[kind |-> k, items |-> <<>>] : k \in opt.kinds}

\* The generator calls back.
Resolve ==
    \E r \in BagToSet(requests) :
      \E newElement \in Results(r) :
        Commit(onListItemGenerated([Obj EXCEPT !.requests = BagRemove(@, r)],
                                   opt.batchLoad,
                                   IF opt.batchLoad THEN r.ids ELSE r.ids[1],
                                   newElement, r.uid),
               Staleness(r.uid, newElement.kind))

\* reload() called by the page.
Reload ==
    /\ uid <= MaxEpoch
    /\ Commit(reload(Obj), "no")

\* reload() called by the page, once.
ReloadOnce ==
    /\ uid = 1
    /\ Commit(reload(Obj), "no")

\* The numbers Math.random() * 1000 >>> 0 may give (two of the thousand).
Tokens == {1, 2}

\* updateItem(index) called by the page.
UpdateItem ==
    \E index \in opt.updates, randomIndex \in Tokens :
        /\ index \in domElements
        /\ Commit(updateItem(Obj, index, randomIndex), "no")

\* The generator calls back for an updateItem.
ResolveUpdate ==
    \E c \in BagToSet(updateCalls), kind \in opt.kinds :
        Commit(onItemUpdated([Obj EXCEPT !.updateCalls = BagRemove(@, c)],
                             c.index, c.token, kind), "no")

\* The timer set by setTimeout(() => reload(), 10) fires.
FireReload ==
    /\ reloadTimers > 0
    /\ Commit(reload([Obj EXCEPT !.reloadTimers = @ - 1]), "no")

\* updateSize(size) called by the page with a valid size.
UpdateSize ==
    \E n \in opt.sizes, visible \in Visibles, checked \in Checks,
       scrollTop \in ScrollTops :
        /\ n # size
        /\ Commit(updateSize(Obj, n, visible, checked, scrollTop), "no")

\* What a page may pass to updateSize: the sizes of the configuration, a
\* negative number and something that is not a number.
SizeArgs ==
    {[isNumber |-> TRUE, value |-> n] : n \in opt.sizes \cup {-1}}
      \cup {[isNumber |-> FALSE, value |-> 0]}

\* updateSize(size) called by the page with any argument.
UpdateSizeOf ==
    \E arg \in SizeArgs, visible \in Visibles, checked \in Checks,
       scrollTop \in ScrollTops :
        /\ ~(arg.isNumber /\ arg.value = size)
        /\ Commit(updateSizeOf(Obj, arg, visible, checked, scrollTop), "no")

\* invalidate(force) called by the page, what it met written to the log.
InvalidateAt ==
    \E force \in BOOLEAN, visible \in Visibles, checked \in BOOLEAN,
       scrollTop \in ScrollTops :
        Commit(invalidate([Obj EXCEPT !.log.entry = <<[force |-> force,
                                                       visible |-> visible,
                                                       checked |-> checked]>>],
                          force, visible, checked, scrollTop), "no")

\* A resize event of the window reaches the resize listener.
Resize ==
    /\ "resize" \in listeners
    /\ \E visible \in Visibles, checked \in Checks, scrollTop \in ScrollTops :
          Commit(resizeListener(Obj, visible, checked, scrollTop), "no")

\* A scroll event of the root element reaches the scroll listener.
Scroll ==
    /\ "scroll" \in listeners
    /\ \E visible \in Visibles, checked \in Checks, scrollTop \in ScrollTops :
          Commit(scrollListener(Obj, visible, checked, scrollTop), "no")

\* The timer of the scroll listener fires.
FireScroll ==
    /\ scrollTimeout > 0
    /\ \E visible \in Visibles, checked \in Checks, scrollTop \in ScrollTops :
          Commit(scrollTimedOut(Obj, visible, checked, scrollTop), "no")

\* dispose() called by the page.
Dispose ==
    /\ TRUE
    /\ Commit(dispose(Obj), "no")

\* invalidate(force) of src/scroll.js called by the page or a listener.
Invalidate_scroll ==
    \E force \in BOOLEAN, visible \in Visibles, checked \in Checks,
       scrollTop \in ScrollTops :
        Commit(invalidate_scroll(Obj, force, visible, checked, scrollTop), "no")

\* A timer set by setTimeout(this.invalidate.bind(this), 0) in
\* src/scroll.js fires.
FireInvalidate_scroll ==
    /\ timers # <<>>
    /\ Head(timers).t = "inv"
    /\ \E visible \in Visibles, checked \in Checks, scrollTop \in ScrollTops :
          Commit(invalidate_scroll([Obj EXCEPT !.timers = Tail(@)], FALSE, visible,
                                   checked, scrollTop),
                 "no")

\* A timer set by setTimeout(removeElements.bind(this), 0) in src/scroll.js
\* fires.
FireRemove_scroll ==
    /\ timers # <<>>
    /\ Head(timers).t = "rm"
    /\ Commit(removeElements_scroll([Obj EXCEPT !.timers = Tail(@)], Head(timers).els),
              "no")

\* The generator calls back in src/scroll.js.
Resolve_scroll ==
    \E r \in BagToSet(requests) :
      \E kind \in opt.kinds :
        Commit(onListItemGenerated_scroll([Obj EXCEPT !.requests = BagRemove(@, r)],
                                          r.ids[1], kind),
               "no")

\* ----------------------------------------------------------- specifications
\* Passes, timers and generator callbacks: no reload, no updateSize.
InitPasses == Constructed({Single, SingleDelete, Batch})
NextPasses ==
    \/ Invalidate
    \/ FireInvalidate
    \/ FireRemove
    \/ FireItem
    \/ Resolve
SpecPasses == InitPasses /\ [][NextPasses]_vars

\* With reload().
Init == Constructed({Plain, PlainBatch})
Next ==
    \/ Invalidate
    \/ FireInvalidate
    \/ FireItem
    \/ Resolve
    \/ Reload
    \/ FireReload
Spec == Init /\ [][Next]_vars

\* With updateSize(), no reload.
InitSize == Constructed({Padded})
NextSize ==
    \/ Invalidate
    \/ FireInvalidate
    \/ FireRemove
    \/ Resolve
    \/ UpdateSize
SpecSize == InitSize /\ [][NextSize]_vars

\* One reload() of a list that evicts.
InitOnce == Constructed({Single})
NextOnce ==
    \/ Invalidate
    \/ FireInvalidate
    \/ FireRemove
    \/ Resolve
    \/ ReloadOnce
SpecOnce == InitOnce /\ [][NextOnce]_vars

\* One reload() of a list that evicts and whose items are updated.
InitUpdate == Constructed({Updated})
NextUpdate ==
    \/ Invalidate
    \/ FireInvalidate
    \/ FireRemove
    \/ Resolve
    \/ ReloadOnce
    \/ UpdateItem
    \/ ResolveUpdate
SpecUpdate == InitUpdate /\ [][NextUpdate]_vars

\* Calls of getChildrenInView alone.
InitWindow == Built({Plain}) /\ calc \in Calls
NextWindow == Calculate
SpecWindow == InitWindow /\ [][NextWindow]_vars

\* A list that has to find out the size of its children.
InitProbe == Constructed({Unsized})
NextProbe ==
    \/ Invalidate
    \/ FireInvalidate
    \/ Resolve
SpecProbe == InitProbe /\ [][NextProbe]_vars

\* With updateSize() called with any argument.
InitArgs == Constructed({Emptied})
NextArgs ==
    \/ Invalidate
    \/ FireInvalidate
    \/ Resolve
    \/ UpdateSizeOf
SpecArgs == InitArgs /\ [][NextArgs]_vars

\* Scroll and resize events and dispose().
InitDispose == Constructed({Throttled, Unthrottled})
NextDispose ==
    \/ FireInvalidate
    \/ FireRemove
    \/ Resolve
    \/ Resize
    \/ Scroll
    \/ FireScroll
    \/ Dispose
SpecDispose == InitDispose /\ [][NextDispose]_vars

\* Calls of invalidate with and without a custom check, the root element
\* visible or hidden.
InitGuards == Constructed({Checked, Hidable})
NextGuards ==
    \/ InvalidateAt
    \/ FireInvalidate
    \/ FireRemove
    \/ Resolve
SpecGuards == InitGuards /\ [][NextGuards]_vars

\* Passes with generators whose results are not always elements.
InitFaulty == Constructed({Faulty, FaultyBatch})
NextFaulty ==
    \/ Invalidate
    \/ FireInvalidate
    \/ FireRemove
    \/ FireItem
    \/ Resolve
SpecFaulty == InitFaulty /\ [][NextFaulty]_vars

\* Passes of a list whose view holds more indices than elementLimit.
InitWide == Constructed({Wide})
NextWide ==
    \/ Invalidate
    \/ FireInvalidate
    \/ FireRemove
    \/ FireItem
    \/ Resolve
SpecWide == InitWide /\ [][NextWide]_vars

\* One reload() of a list with a custom check whose root element may be
\* hidden.
InitReloadGuards == Constructed({Checked})
NextReloadGuards ==
    \/ Invalidate
    \/ FireInvalidate
    \/ FireRemove
    \/ Resolve
    \/ ReloadOnce
SpecReloadGuards == InitReloadGuards /\ [][NextReloadGuards]_vars

\* The same with one reload().
InitProbeReload == Constructed({Unsized})
NextProbeReload ==
    \/ Invalidate
    \/ FireInvalidate
    \/ Resolve
    \/ ReloadOnce
SpecProbeReload == InitProbeReload /\ [][NextProbeReload]_vars

\* src/scroll.js: passes, timers and generator callbacks.
InitScrollJs == Constructed({Plain, Single})
NextScrollJs ==
    \/ Invalidate_scroll
    \/ FireInvalidate_scroll
    \/ FireRemove_scroll
    \/ Resolve_scroll
SpecScrollJs == InitScrollJs /\ [][NextScrollJs]_vars

\* ------------------------------------------------------------------ properties
\* The generator calls for index i that have not called back yet.
Outstanding(i) ==
    BagCardinality([r \in {x \in BagToSet(requests) : i \in Range(x.ids)}
                      |-> requests[r]])

\* Those of them made under the current identifier.
Current(i) ==
    BagCardinality([r \in {x \in BagToSet(requests) :
                             i \in Range(x.ids) /\ x.uid = uid}
                      |-> requests[r]])

\* The indices some generator call is outstanding for.
Asked == UNION {Range(r.ids) : r \in BagToSet(requests)}

\* C1 (SpecPasses): with passes, timers and generator callbacks only, no
\* index ever has more than one generator call outstanding: a pass does not
\* call the generator for an index whose query is unresolved.
AtMostOneRequest == \A i \in Asked : Outstanding(i) <= 1

\* C1, the case: a pass ran over an index that is in view, not in the DOM,
\* below the size and still queried, and called no generator.
PendingNotAskedAgain ==
    /\ last.log.ran
    /\ last.log.asked = <<>>
    /\ \E i \in inView \cap queries :
          /\ i \notin domElements
          /\ size = NoSize \/ i < size
          /\ Outstanding(i) = 1

\* C2 (Spec): with passes, reload() and callbacks of any kind and age
\* interleaved, no index ever has more than one generator call of the
\* current identifier outstanding.
AtMostOneCurrentRequest == \A i \in Asked : Current(i) <= 1

\* C3 (Spec): a step that handles a generator result of an earlier
\* identifier (the callback itself, or the timer of one item of a batch)
\* adds no index to __domElements and attaches no element.
StaleNeverMounts ==
    [][last'.stale # "no" =>
          /\ domElements' = domElements
          /\ dom' = dom
          /\ last'.log.mounted = <<>>]_vars

\* C3, the case: the timer of an element of a batch generated for an earlier
\* identifier has fired after the reload.
StaleResultHandled == last.stale = "item" /\ uid > 1

\* C4 (Spec): a step that handles a generator result of an earlier
\* identifier, whatever the result, leaves __queries, __domElements, the
\* cache, both queues and the reload flags as they were.
StaleChangesNothing ==
    [][last'.stale # "no" =>
          UNCHANGED <<queries, domElements, cache, queue, cacheQueue,
                      reloading, reloadAfter>>]_vars

\* C5 (SpecOnce): no index is in two of __queries, __domElements and the
\* cache at once.
OneStatePerIndex ==
    /\ queries \cap domElements = {}
    /\ queries \cap cache = {}
    /\ domElements \cap cache = {}

\* C6 (SpecPasses): the indices a pass selects for removal are neither in
\* the view that pass computed nor queried.
EvictionSparesVisibleAndPending ==
    Range(last.log.sel) \cap (inView \cup queries) = {}

\* C6, the case: a pass selected an index for removal and passed over a
\* candidate that is in view or queried.
EvictionSkippedOne ==
    /\ last.log.sel # <<>>
    /\ last.log.skipped # <<>>
    /\ Range(last.log.skipped) \subseteq inView \cup queries

\* C7 (SpecSize): an index that is cached when a pass finds it in view is in
\* __domElements after the pass, gone from the cache and the cache queue,
\* and no generator call of the pass names it.
CachedPromoted ==
    [][last'.log.ran =>
          \A k \in cache \cap inView' :
              /\ k \in domElements'
              /\ k \notin cache'
              /\ k \notin Range(cacheQueue')
              /\ \A a \in Range(last'.log.asked) : k \notin Range(a)]_vars

\* The view never holds more indices than elementLimit.
WindowFits ==
    \A s \in opt.scrollTops :
        Len(getChildrenInView(s, opt.clientHeight, treshold, childSize))
            <= opt.elementLimit

\* C8 (SpecPasses): with elementLimit set and a view that never holds more
\* indices than that, whenever no generator call is outstanding and no
\* removal timer is set, at most elementLimit indices are in __domElements
\* and at most that many elements are attached.
MountedWithinLimit ==
    (/\ opt.elementLimit # 0
     /\ WindowFits
     /\ requests = EmptyBag
     /\ \A k \in DOMAIN timers : timers[k].t # "rm")
    => /\ Cardinality(domElements) <= opt.elementLimit
       /\ BagCardinality(dom) <= opt.elementLimit

\* C9 (SpecPasses): with cacheSize set, after every removal timer the cache
\* queue holds at most cacheSize indices, and the indices it forgot were the
\* head of the cache queue, in that order, and are gone from the cache and
\* from the cache queue.
CacheWithinSize ==
    [][(last'.log.ticked /\ opt.cacheSize # 0) =>
          /\ Len(cacheQueue') <= opt.cacheSize
          /\ \A k \in 1..Len(last'.log.forgot) :
                k <= Len(cacheQueue) => last'.log.forgot[k] = cacheQueue[k]
          /\ \A k \in Range(last'.log.forgot) :
                k \notin cache' /\ k \notin Range(cacheQueue')]_vars

\* C10 (Spec): the end of a reload sets exactly one reload timer if one or
\* more reload() calls found that reload in progress, and none if no call
\* did; no other step sets a reload timer; a call that finds a reload in
\* progress changes nothing but the flag; a call that finds none reloads.
ReloadsCoalesce ==
    [][/\ last'.log.drained =>
            /\ reloading /\ ~reloading' /\ ~reloadAfter'
            /\ reloadTimers' = reloadTimers + (IF last.deferred > 0 THEN 1 ELSE 0)
       /\ ~last'.log.drained => reloadTimers' <= reloadTimers
       /\ last'.log.reload = "deferred" =>
            /\ reloading /\ reloading' /\ reloadAfter'
            /\ uid' = uid
            /\ UNCHANGED <<domElements, queries, cache, queue, cacheQueue, dom, timers>>
       /\ last'.log.reload = "run" =>
            /\ ~reloading /\ reloading'
            /\ uid' # uid]_vars

\* C10, the case: a reload that two reload() calls found in progress has
\* ended and one reload timer is set.
TwoCallsOneReload ==
    /\ last.log.drained
    /\ last.deferred = 2
    /\ reloadTimers = 1

Quiet == requests = EmptyBag /\ timers = <<>> /\ reloadTimers = 0

\* C12 (Spec): once every generator call has called back and every timer
\* has fired, no reload is in progress: the callback of the last outstanding
\* call ends the reload whatever it was handed, and so does a pass after the
\* reload that calls no generator.
ReloadEndsWhenQuiet == Quiet => ~reloading

\* C13 (Spec): once every generator call has called back and every timer
\* has fired, no element attached before a reload is attached any more.
OldElementsGoWhenQuiet == Quiet => oldDom = 0

\* getChildrenInView has returned for a child size that is known.
Known == calc.done /\ calc.childSize > 0

\* C14 (SpecWindow): for a known child size every index i that
\* getChildrenInView returns has i * childSize <= rootTop + rootHeight +
\* treshold.
WindowUpperBound ==
    Known => \A k \in DOMAIN calc.result :
                calc.result[k] * calc.childSize
                    <= calc.rootTop + calc.rootHeight + calc.treshold

\* C15 (SpecWindow): for a known child size every index i that
\* getChildrenInView returns has i * childSize + childSize >= rootTop -
\* treshold.
WindowLowerBound ==
    Known => \A k \in DOMAIN calc.result :
                calc.result[k] * calc.childSize + calc.childSize
                    >= calc.rootTop - calc.treshold

\* C15, the case: a call with a treshold, scrolled further than the
\* treshold, whose first index is not 0.
WindowBelowTop ==
    /\ Known
    /\ calc.treshold > 0
    /\ calc.rootTop > calc.treshold
    /\ calc.result[1] > 0

\* C16 (SpecWindow): for a known child size getChildrenInView returns a
\* sequence that is not empty, starts at floor(max(rootTop - treshold, 0) /
\* childSize) and goes up by one; at rootTop 0 it is 0 .. ceil((rootHeight +
\* 2 * treshold) / childSize) - 1; child size 50, height 200 and treshold
\* 25 give 0, 1, 2, 3, 4.
WindowShape ==
    Known =>
      LET r == calc.result
      IN  /\ Len(r) >= 1
          /\ r[1] = Max(calc.rootTop - calc.treshold, 0) \div calc.childSize
          /\ \A k \in 1..(Len(r) - 1) : r[k + 1] = r[k] + 1
          /\ calc.rootTop = 0 =>
               Len(r) = (calc.rootHeight + 2 * calc.treshold + calc.childSize - 1)
                           \div calc.childSize
          /\ (calc.rootTop = 0 /\ calc.rootHeight = 200 /\ calc.treshold = 25
              /\ calc.childSize = 50) => r = <<0, 1, 2, 3, 4>>

\* C16, the case: the call with child size 50, height 200, treshold 25 at
\* rootTop 0 has returned.
WindowOfFive ==
    /\ Known
    /\ calc.rootTop = 0 /\ calc.rootHeight = 200
    /\ calc.treshold = 25 /\ calc.childSize = 50
    /\ calc.result = <<0, 1, 2, 3, 4>>

\* C17 (SpecProbe): while the child size is not known, the view of every
\* pass is exactly {0}, wherever the root element is scrolled to, and no
\* index but 0 is queried, asked of the generator or in __domElements.
OnlyFirstWhileUnsized ==
    childSize = 0 =>
        /\ last.log.ran => inView = {0}
        /\ inView \subseteq {0}
        /\ queries \subseteq {0}
        /\ Asked \subseteq {0}
        /\ domElements = {}

\* C17, the case: a pass has run with the root element scrolled down while
\* the child size was not known, and index 0 is queried.
ProbedWhileScrolled ==
    /\ childSize = 0
    /\ last.log.ran
    /\ lastScrollTop = 2
    /\ queries = {0}

\* C18 (SpecSize): a pass of a list with a fixed size calls the generator
\* for no index at or past the size, takes no such index from the cache and
\* pushes no such index on __queue.
PassStaysBelowSize ==
    [][(last'.log.ran /\ size' # NoSize) =>
          /\ \A k \in 1..Len(last'.log.asked) :
                \A e \in Range(last'.log.asked[k]) : e < size'
          /\ \A e \in last'.log.promoted : e < size'
          /\ \A e \in Range(queue') :
                Len(SelectSeq(queue', LAMBDA x : x = e))
                  > Len(SelectSeq(queue, LAMBDA x : x = e)) => e < size'
          /\ \A e \in queries' \ queries : e < size']_vars

\* C18, the case: a pass had an index at or past the fixed size in view
\* and called the generator for an index below it.
PassSawPastSize ==
    /\ last.log.ran
    /\ size # NoSize
    /\ \E e \in inView : e >= size
    /\ last.log.asked # <<>>

\* C19 (SpecSize): when updateSize makes the list longer, every index in
\* view that the new size admits is in __domElements or queried when
\* updateSize returns.
GrownSizeLoadsView ==
    [][size' > size =>
          \A e \in inView : e < size' => (e \in domElements' \/ e \in queries')]_vars

\* C20 (SpecArgs): updateSize called with something that is not a number,
\* with a negative number or with 0 throws and leaves __size,
\* __domElements, __cache, __queries, __queue and __cacheQueue as they were.
BadSizeRejected ==
    [][\A k \in 1..Len(last'.log.call) :
          LET arg == last'.log.call[k]
          IN  (~arg.isNumber \/ arg.value <= 0) =>
                /\ last'.log.thrown
                /\ size' = size
                /\ domElements' = domElements
                /\ cache' = cache
                /\ queries' = queries
                /\ queue' = queue
                /\ cacheQueue' = cacheQueue]_vars

\* C21 (SpecUpdate): the result of a call of updateItem that is not the
\* latest call for its index, or that was made before the last reload,
\* attaches no element.
LatestUpdateWins ==
    [][\A c \in BagToSet(updateCalls) :
          (BagCount(updateCalls', c) < BagCount(updateCalls, c) /\ ~c.latest)
             => last'.log.mounted = <<>>]_vars

\* C22 (SpecDispose): once dispose() has returned no pass is run by a
\* scroll or a resize event, and a second dispose() changes nothing.
DisposeEndsTriggers ==
    [][listeners = {} =>
          /\ last'.log.ran => last'.log.trigger \notin {"scroll", "resize"}
          /\ last'.log.trigger = "dispose" =>
                UNCHANGED <<size, childSize, treshold, uid, reloading, reloadAfter,
                            domElements, inView, queue, cacheQueue, cache, queries,
                            dom, oldDom, requests, timers, reloadTimers,
                            lastScrollTop, listeners, scrollTimeout,
                            updateRequests, updateCalls>>]_vars

\* C23 (SpecPasses): with a domDelete callback, a removal timer ends without
\* an exception and every element it takes off the DOM is no longer in
\* __domElements.
RemovalNotifies ==
    [][(last'.log.ticked /\ opt.domDelete) =>
          /\ ~last'.log.thrown
          /\ \A e \in Range(Head(timers).els) :
                BagCount(dom, e) > 0 => e \notin domElements']_vars

\* C24 (SpecGuards): a call of invalidate runs its pass exactly when it is
\* forced, or the custom check returns true if one is configured, or the
\* root element is visible if none is; the check is called exactly when one
\* is configured and the call is not forced; a call that does not run the
\* pass changes nothing and calls no generator.
EntryGuards ==
    [][\A k \in 1..Len(last'.log.entry) :
          LET e == last'.log.entry[k]
          IN  /\ last'.log.ran <=>
                    (e.force \/ (IF opt.check THEN e.checked ELSE e.visible))
              /\ last'.log.consulted <=> (~e.force /\ opt.check)
              /\ ~last'.log.ran =>
                    /\ last'.log.asked = <<>>
                    /\ UNCHANGED <<size, childSize, treshold, uid, reloading,
                                   reloadAfter, domElements, inView, queue,
                                   cacheQueue, cache, queries, dom, oldDom,
                                   requests, timers, reloadTimers, lastScrollTop,
                                   listeners, scrollTimeout, updateRequests,
                                   updateCalls>>]_vars

\* C24, the case: with a check configured that returns true, a call that is
\* not forced has run its pass on a hidden root element and asked the
\* generator.
CheckedPassWhileHidden ==
    /\ opt.check
    /\ last.log.ran
    /\ last.log.entry = <<[force |-> FALSE, visible |-> FALSE, checked |-> TRUE]>>
    /\ last.log.asked # <<>>

\* The indices a pass with the view v needs: those in view and below the
\* fixed size that are neither in __domElements, in the cache nor queried
\* when the pass begins, in ascending order.
Needed(v) ==
    SetToSeq({e \in v : /\ size = NoSize \/ e < size
                        /\ e \notin domElements
                        /\ e \notin cache
                        /\ e \notin queries})

EmptyResultRetried ==
    [][/\ (last'.log.emptied # {} /\ last'.stale = "no") =>
             /\ last'.log.emptied \cap queries' = {}
             /\ last'.log.mounted = <<>>
             /\ domElements' = domElements
             /\ dom' = dom
             /\ cache' = cache
       /\ (last.log.emptied # {} /\ last.stale = "no" /\ last'.log.ran) =>
             \A e \in last.log.emptied :
                (e \in inView' /\ (size = NoSize \/ e < size))
                   => (e \in last'.retried /\ e \in queries')]_vars

\* C26, the case: a batch of two had an empty result and the pass that
\* followed has asked for both indices again.
BatchRetried == opt.batchLoad /\ Cardinality(last.retried) = 2

\* C27 (SpecFaulty): a result for one index, of the current identifier, that
\* is neither empty nor an element throws out of the callback and attaches
\* nothing: __domElements, the cache, the cache queue and the DOM are as
\* they were.
BadResultThrows ==
    [][(last'.log.result = "bad" /\ last'.stale = "no") =>
          /\ last'.log.thrown
          /\ last'.log.mounted = <<>>
          /\ domElements' = domElements
          /\ cache' = cache
          /\ cacheQueue' = cacheQueue
          /\ dom' = dom]_vars

\* C27, the case: such a result has thrown while one index was attached and
\* another cached.
BadResultThrown ==
    /\ last.log.result = "bad"
    /\ last.log.thrown
    /\ domElements # {}
    /\ cache # {}

\* C28 (SpecPasses): a removal timer takes no element off the DOM whose
\* index is in __inView or in __queries when the timer runs.
TickSparesVisible ==
    [][last'.log.ticked =>
          \A e \in Range(Head(timers).els) :
             BagCount(dom', e) < BagCount(dom, e) => (e \notin inView /\ e \notin queries)]_vars

\* C29 (SpecPasses): every entry of __queue is in __domElements and no index
\* is in __queue twice.
QueueHoldsMounted ==
    /\ \A k \in 1..Len(queue) : queue[k] \in domElements
    /\ \A j, k \in 1..Len(queue) : queue[j] = queue[k] => j = k

\* C30 (SpecPasses): every index in __domElements is in __queue.
MountedAreQueued == domElements \subseteq Range(queue)

RECURSIVE RemoveEach(_, _)
\* The queue q without the first entry of each index of the sequence sel.
RemoveEach(q, sel) ==
    IF sel = <<>> THEN q ELSE RemoveEach(RemoveFirst(q, Head(sel)), Tail(sel))

\* C31 (SpecPasses): the eviction step of a pass leaves in __queue, in their
\* order, all entries but those it selected for removal (the pass appends
\* what it requests behind them).
EvictionKeepsOrder ==
    [][(last'.log.ran /\ opt.elementLimit # 0) =>
          LET rest == RemoveEach(queue, last'.log.sel)
          IN  /\ Len(queue') >= Len(rest)
              /\ SubSeq(queue', 1, Len(rest)) = rest]_vars

\* C32 (SpecWide): after the eviction step of a pass __queue holds at most
\* elementLimit of the entries it held before, unless every one of them
\* that is left is in __inView or in __queries.
EvictionReachesLimit ==
    [][(last'.log.ran /\ opt.elementLimit # 0) =>
          LET n == Len(queue) - Len(last'.log.sel) - Len(last'.log.skipped)
              left == SubSeq(queue', 1, n)
          IN  \/ n <= opt.elementLimit
              \/ \A k \in 1..n : left[k] \in inView' \/ left[k] \in queries]_vars

\* C33 (Spec): no element is attached for an index that is in __domElements
\* already, and no index has two elements of the current identifier
\* attached.
MountedOnce ==
    [][/\ \A k \in 1..Len(last'.log.mounted) :
             last'.log.mounted[k] \notin domElements
       /\ \A i \in BagToSet(dom') : BagCount(dom', i) <= 1]_vars

\* C34 (SpecSize): no index at or past the fixed size is in __domElements,
\* in the cache, in __queue or in __cacheQueue.
NothingPastSize ==
    \A i \in domElements \cup cache \cup Range(queue) \cup Range(cacheQueue) :
        i < size

\* C35 (SpecUpdate): the result of an updateItem call whose index is no
\* longer in __domElements attaches nothing and throws nothing.
LateUpdateDropped ==
    [][BagCardinality(updateCalls') < BagCardinality(updateCalls) =>
          \A c \in BagToSet(updateCalls) :
             (BagCount(updateCalls', c) < BagCount(updateCalls, c)
                /\ c.index \notin domElements)
                => (dom' = dom /\ ~last'.log.thrown /\ last'.log.mounted = <<>>)]_vars

\* The timers that call invalidate.
InvTimers(ts) == Len(SelectSeq(ts, LAMBDA t : t.t = "inv"))

\* C36 (SpecReloadGuards): the timer reload() sets runs its pass whatever
\* the custom check returns and whether or not the root element is visible.
\* (After a reload the last timer calling invalidate is the one of reload.)
ReloadPassForced ==
    [][(/\ uid > 1
        /\ timers # <<>>
        /\ Head(timers).t = "inv"
        /\ InvTimers(timers) = 1
        /\ InvTimers(timers') = 0) => last'.log.ran]_vars

SizeFoundOnce ==
    [][/\ (childSize = 0 /\ last'.log.mounted # <<>>) =>
             /\ childSize' = opt.scrollHeight
             /\ childSize' > 0
             /\ treshold' = (opt.tresholdHalves * childSize') \div 2
             /\ timers' # <<>>
             /\ timers'[Len(timers')].t = "inv"
             /\ Len(timers') > Len(timers)
       /\ (childSize = 0 /\ last'.log.mounted = <<>>) => childSize' = 0
       /\ childSize # 0 => (childSize' = childSize /\ treshold' = treshold)
       /\ last'.log.ran => inView' \subseteq domElements' \cup queries']_vars

\* C38, the case: the size was found, the pass set by that has asked for
\* the other indices in view, and after a reload the size is still the same
\* and an index other than 0 is attached.
SizeKeptAcrossReload ==
    /\ opt.childSize = 0
    /\ childSize = opt.scrollHeight
    /\ uid > 1
    /\ \E i \in domElements : i > 0

\* C39 (SpecDispose): with throttleScroll a scroll event runs no pass and
\* leaves exactly one timer of the scroll listener pending, however many
\* events came before it, and that timer runs one pass and leaves none
\* pending; without throttleScroll a scroll event runs one pass at once and
\* sets no timer.
ScrollThrottle ==
    [][/\ scrollTimeout' <= 1
       /\ last'.log.trigger = "scroll" =>
             IF opt.throttleScroll
             THEN \/ /\ ~last'.log.ran
                     /\ scrollTimeout' = 1
                     /\ last'.log.cleared = (scrollTimeout = 1)
                     /\ requests' = requests
                  \/ /\ last'.log.ran
                     /\ scrollTimeout = 1
                     /\ scrollTimeout' = 0
             ELSE /\ last'.log.ran
                  /\ scrollTimeout' = 0]_vars

\* C39, the case: a scroll event came while the timer of an earlier one was
\* pending, and one timer is pending.
ScrollsCoalesced ==
    /\ opt.throttleScroll
    /\ last.log.trigger = "scroll"
    /\ last.log.cleared
    /\ scrollTimeout = 1

\* C40 (SpecScrollJs): in src/scroll.js a pass does not call the generator
\* for an index that has a generator call outstanding.
UnresolvedNotAskedAgain ==
    [][last'.log.ran =>
          \A k \in 1..Len(last'.log.asked) :
             \A i \in Range(last'.log.asked[k]) : Outstanding(i) = 0]_vars

====
